---- MODULE Spec2Model ----
(***************************************************************************)
(* Model of the "Hoos Who?" chat application (src/app.py): the input       *)
(* sanitizer, the per-session rate limiter, the query dispatcher and the   *)
(* chat input handler, with the session state they read and write.         *)
(*                                                                         *)
(* Strings are sequences of one-character strings.  Time is an integer     *)
(* count of half hours read from a clock that never runs backwards.        *)
(***************************************************************************)
EXTENDS Integers, Sequences, FiniteSets, TLC

(***************************************************************************)
(* Bounds of the model.                                                    *)
(***************************************************************************)
\* the clock stops advancing at MaxTime
MaxTime == 4
\* a submission is only taken while the transcript has room for one more pair
MaxMessages == 4

(***************************************************************************)
(* Program constants.                                                      *)
(***************************************************************************)
\* timedelta(hours=1), in clock units of half an hour
Hour == 2
\* the hourly limit of check_rate_limit
MAX_QUERIES == 20
\* the length cap of sanitize_input
MAX_INPUT_LEN == 500
\* the minimum length the chat input handler accepts
MIN_INPUT_LEN == 3
\* max_tokens of the upstream call
MAX_TOKENS == 1000

Min(a, b) == IF a <= b THEN a ELSE b

(***************************************************************************)
(* Letter casing: str.lower() and str.upper() on the letters A-Z, a-z.     *)
(***************************************************************************)
LowerLetters ==
    <<"a", "b", "c", "d", "e", "f", "g", "h", "i", "j", "k", "l", "m", "n", "o", "p",
    "q", "r", "s", "t", "u", "v", "w", "x", "y", "z">>

UpperLetters ==
    <<"A", "B", "C", "D", "E", "F", "G", "H", "I", "J", "K", "L", "M", "N", "O", "P",
    "Q", "R", "S", "T", "U", "V", "W", "X", "Y", "Z">>

LetterIndex(letters, c) ==
    IF \E i \in 1..Len(letters) : letters[i] = c
    THEN CHOOSE i \in 1..Len(letters) : letters[i] = c
    ELSE 0

LowerChar(c) ==
    LET i == LetterIndex(UpperLetters, c) IN IF i = 0 THEN c ELSE LowerLetters[i]

UpperChar(c) ==
    LET i == LetterIndex(LowerLetters, c) IN IF i = 0 THEN c ELSE UpperLetters[i]

Lower(s) == [i \in 1..Len(s) |-> LowerChar(s[i])]

Upper(s) == [i \in 1..Len(s) |-> UpperChar(s[i])]

(***************************************************************************)
(* str.replace(pattern, ''): remove the non-overlapping occurrences of     *)
(* pattern, scanning from the left.                                        *)
(***************************************************************************)
StartsWith(s, p) ==
    /\ Len(p) <= Len(s)
    /\ \A i \in 1..Len(p) : s[i] = p[i]

RECURSIVE Remove(_, _)
Remove(s, p) ==
    IF Len(s) < Len(p) \/ Len(p) = 0 THEN s
    ELSE IF StartsWith(s, p) THEN Remove(SubSeq(s, Len(p) + 1, Len(s)), p)
    ELSE <<s[1]>> \o Remove(Tail(s), p)

dangerous_patterns ==
    <<
      <<"<", "s", "c", "r", "i", "p", "t", ">">>,
      <<"j", "a", "v", "a", "s", "c", "r", "i", "p", "t", ":">>,
      <<"o", "n", "e", "r", "r", "o", "r", "=">>,
      <<"o", "n", "c", "l", "i", "c", "k", "=">>,
      <<"D", "R", "O", "P", " ", "T", "A", "B", "L", "E">>,
      <<"D", "E", "L", "E", "T", "E", " ", "F", "R", "O", "M">>,
      <<"I", "N", "S", "E", "R", "T", " ", "I", "N", "T", "O">>,
      <<"S", "E", "L", "E", "C", "T", " ", "*">>,
      <<"<", "i", "f", "r", "a", "m", "e", ">">>,
      <<"e", "v", "a", "l", "(">>,
      <<"d", "o", "c", "u", "m", "e", "n", "t", ".", "c", "o", "o", "k", "i", "e">>
    >>

\* the three strings one pass of the loop removes: the pattern as written,
\* lower-cased and upper-cased
PatternForms ==
    [k \in 1..Len(dangerous_patterns) |->
        <<dangerous_patterns[k], Lower(dangerous_patterns[k]), Upper(dangerous_patterns[k])>>]

RemovePattern(s, k) ==
    Remove(Remove(Remove(s, PatternForms[k][1]), PatternForms[k][2]), PatternForms[k][3])

RECURSIVE RemoveAll(_, _)
RemoveAll(s, k) ==
    IF k > Len(dangerous_patterns) THEN s
    ELSE RemoveAll(RemovePattern(s, k), k + 1)

sanitize_input(raw) ==
    IF Len(raw) = 0 THEN <<>>
    ELSE LET sanitized == RemoveAll(raw, 1)
         IN  SubSeq(sanitized, 1, Min(Len(sanitized), MAX_INPUT_LEN))

(***************************************************************************)
(* check_rate_limit: prune the window to the last hour, refuse at the      *)
(* limit, otherwise record the current time.                               *)
(***************************************************************************)
InWindow(current_time, t) == current_time - t < Hour

\* slip: the window is never pruned
Pruned_Never(times, current_time) == times

Pruned(times, current_time) ==
    SelectSeq(times, LAMBDA t : InWindow(current_time, t))

\* slip: the limit is compared with > instead of >=
LimitReached_OffByOne(times) == Len(times) > MAX_QUERIES

LimitReached(times) == Len(times) >= MAX_QUERIES

\* slip: the current time is recorded before the limit is checked
check_rate_limit_RecordFirst(times, current_time) ==
    LET kept == Append(Pruned(times, current_time), current_time)
    IN  [ok |-> Len(kept) <= MAX_QUERIES, query_times |-> kept]

check_rate_limit(times, current_time) ==
    LET kept == Pruned(times, current_time)
    IN  IF LimitReached(kept)
        THEN [ok |-> FALSE, query_times |-> kept]
        ELSE [ok |-> TRUE, query_times |-> Append(kept, current_time)]

(***************************************************************************)
(* The student directory and the prompt query_claude builds from it.       *)
(***************************************************************************)
Columns ==
    <<"name", "current_company", "current_role", "past_companies", "industries", "contact">>

student_data ==
    << [name |-> "Ana Ruiz", current_company |-> "ICF", current_role |-> "Analyst",
        past_companies |-> "Deloitte", industries |-> "Consulting",
        contact |-> "ana@virginia.edu"],
       [name |-> "Ben Cho", current_company |-> "Capital One", current_role |-> "Data Scientist",
        past_companies |-> "ICF", industries |-> "Finance",
        contact |-> "ben@virginia.edu"] >>

\* to_dict('records') and json.dumps: every row, every column, as key/value pairs
SerializeRecord(row) == [c \in 1..Len(Columns) |-> <<Columns[c], row[Columns[c]]>>]

\* slip: only the first row reaches the prompt
Serialize_FirstRowOnly(data) == [r \in 1..Min(1, Len(data)) |-> SerializeRecord(data[r])]

Serialize(data) == [r \in 1..Len(data) |-> SerializeRecord(data[r])]

UserPrompt(user_question, data) ==
    [preamble |-> "Here's our current MSBA student database:",
     context |-> Serialize(data),
     question |-> user_question,
     instruction |-> "Please search through the students and provide helpful recommendations"]

Request(user_question, data) ==
    [model |-> "claude-sonnet-4-20250514",
     max_tokens |-> MAX_TOKENS,
     system |-> "SYSTEM_PROMPT",
     messages |-> <<[role |-> "user", content |-> UserPrompt(user_question, data)]>>]

\* what the upstream model may answer with
MODEL_TEXT ==
    <<"A", "s", "k", " ", "A", "n", "a", " ", "R", "u", "i", "z", " ", "a", "t", " ",
    "I", "C", "F", ".">>

\* the fixed message query_claude returns when the upstream call raises
FALLBACK ==
    <<"I", "'", "m", " ", "h", "a", "v", "i", "n", "g", " ", "t", "r", "o", "u", "b",
    "l", "e", " ", "p", "r", "o", "c", "e", "s", "s", "i", "n", "g", " ", "y", "o", "u",
    "r", " ", "r", "e", "q", "u", "e", "s", "t", " ", "r", "i", "g", "h", "t", " ", "n",
    "o", "w", ".", " ", "P", "l", "e", "a", "s", "e", " ", "t", "r", "y", " ", "a", "g",
    "a", "i", "n", " ", "i", "n", " ", "a", " ", "m", "o", "m", "e", "n", "t", ".", " ",
    "I", "f", " ", "t", "h", "i", "s", " ", "c", "o", "n", "t", "i", "n", "u", "e", "s",
    ",", " ", "p", "l", "e", "a", "s", "e", " ", "c", "o", "n", "t", "a", "c", "t", " ",
    "s", "u", "p", "p", "o", "r", "t", ".">>

\* the upstream call either returns a text or raises an exception
UpstreamResults == {"text", "raise"}

\* slip: the exception is not caught
ExceptionHandled_Never(result) == FALSE

\* except Exception: every exception of the upstream call is handled
ExceptionHandled(result) == result = "raise"

(***************************************************************************)
(* Lines of the audit log: the level, the message and, for the lines of    *)
(* log_query, the status and the two lengths (-1 where the line has none). *)
(***************************************************************************)
LogLine(level, event, status, query_length, response_length) ==
    [level |-> level, event |-> event, status |-> status,
     query_length |-> query_length, response_length |-> response_length]

\* slip: the success flag is ignored
log_query_AlwaysSuccess(query_length, response_length, success) ==
    LogLine("INFO", "Query", "SUCCESS", query_length, response_length)

log_query(query_length, response_length, success) ==
    LogLine("INFO", "Query", IF success THEN "SUCCESS" ELSE "FAILED",
            query_length, response_length)

\* logging.warning(f"Invalid input rejected - length: {len(user_input)}")
InvalidInputLine(text) == LogLine("WARNING", "Invalid input rejected", "none", Len(text), -1)

\* logging.warning("Rate limit exceeded")
RateLimitLine == LogLine("WARNING", "Rate limit exceeded", "none", -1, -1)

\* logging.error("API key missing - application cannot function")
KeyMissingLine == LogLine("ERROR", "API key missing", "none", -1, -1)

\* logging.error(f"API Error: {str(e)}")
ApiErrorLine == LogLine("ERROR", "API Error", "none", -1, -1)

(***************************************************************************)
(* What the user may type into the chat input.                             *)
(***************************************************************************)
RawInputs ==
    { <<>>,
      <<"h", "i">>,
      <<"S", "E", "L", "E", "C", "T", " ", "*", "h", "i">>,
      <<"W", "h", "o", " ", "w", "o", "r", "k", "s", " ", "a", "t", " ", "I", "C", "F", "?">>,
      <<"W", "h", "o", " ", "w", "o", "r", "k", "s", " ", "a", "t", " ", "<", "s", "c", "r", "i", "p", "t", ">", "I", "C", "F", "?">> }

\* sanitize_input on each of them
Sanitized == [text \in RawInputs |-> sanitize_input(text)]

(***************************************************************************)
(* Session state.                                                          *)
(***************************************************************************)
VARIABLES
    api_key,          \* TRUE iff ANTHROPIC_API_KEY is set in the environment
    now,              \* the clock read by datetime.now()
    query_times,      \* st.session_state.query_times
    messages,         \* st.session_state.messages
    pc,               \* "awaiting" | "processing" | "calling"
    user_input,       \* what st.chat_input returned to the run in progress
    sanitized_input,  \* the question of the run in progress
    requests,         \* upstream calls dispatched by the latest accepted attempt
    outcome,          \* how the latest attempt ended
    accepted,         \* history: timestamps accepted by check_rate_limit in the last hour
    last_pruned,      \* history: entries the latest check_rate_limit call pruned
    submitted,        \* history: the transcript when the run in progress started
    log_tail          \* the lines the latest run of the handler appended to
                      \* hoos_who_audit.log, the end of a file that is only appended to

vars == <<api_key, now, query_times, messages, pc, user_input, sanitized_input, requests,
          outcome, accepted, last_pruned, submitted, log_tail>>

Init ==
    /\ api_key \in BOOLEAN
    /\ now = 0
    /\ query_times = <<>>
    /\ messages = <<>>
    /\ pc = "awaiting"
    /\ user_input = <<>>
    /\ sanitized_input = <<>>
    /\ requests = <<>>
    /\ outcome = "none"
    /\ accepted = <<>>
    /\ last_pruned = 0
    /\ submitted = <<>>
    /\ log_tail = <<>>

(***************************************************************************)
(* The chat input handler up to the point where the user message has been  *)
(* added to the history.                                                   *)
(***************************************************************************)
\* slip: the minimum length is not checked
IsInvalid_EmptyOnly(sanitized) == Len(sanitized) = 0

IsInvalid(sanitized) == Len(sanitized) = 0 \/ Len(sanitized) < MIN_INPUT_LEN

\* Security Check 1 fails: error, warning in the log, st.stop()
RejectInvalid(text) ==
    /\ outcome' = "invalid"
    /\ log_tail' = <<InvalidInputLine(text)>>
    /\ UNCHANGED <<api_key, now, query_times, messages, pc, user_input, sanitized_input,
                   requests, accepted, last_pruned, submitted>>

\* slip: the warning is shown but the script is not stopped
RejectRateLimited_NoStop(rate) ==
    /\ outcome' = "rate_limited"
    /\ log_tail' = <<RateLimitLine>>
    /\ query_times' = rate.query_times
    /\ last_pruned' = Len(query_times) - Len(Pruned(query_times, now))
    /\ submitted' = messages
    /\ messages' = Append(messages, [role |-> "user", content |-> <<>>])
    /\ requests' = <<>>
    /\ pc' = "processing"
    /\ UNCHANGED <<api_key, now, user_input, sanitized_input, accepted>>

\* Security Check 2 fails: warning, st.stop()
RejectRateLimited(rate) ==
    /\ outcome' = "rate_limited"
    /\ log_tail' = <<RateLimitLine>>
    /\ query_times' = rate.query_times
    /\ last_pruned' = Len(query_times) - Len(Pruned(query_times, now))
    /\ UNCHANGED <<api_key, now, messages, pc, user_input, sanitized_input, requests,
                   accepted, submitted>>

\* both checks pass: the user message joins the history
AcceptInput(text, sanitized, rate) ==
    /\ outcome' = "pending"
    /\ log_tail' = <<>>
    /\ query_times' = rate.query_times
    /\ last_pruned' = Len(query_times) - Len(Pruned(query_times, now))
    /\ accepted' = Append(accepted, now)
    /\ submitted' = messages
    /\ messages' = Append(messages, [role |-> "user", content |-> sanitized])
    /\ user_input' = text
    /\ sanitized_input' = sanitized
    /\ requests' = <<>>
    /\ pc' = "processing"
    /\ UNCHANGED <<api_key, now>>

ChatInput(text) ==
    /\ pc = "awaiting"
    /\ Len(messages) + 2 <= MaxMessages
    /\ IF Len(text) = 0
       THEN UNCHANGED vars
       ELSE LET sanitized == Sanitized[text]
                rate == check_rate_limit(query_times, now)
            IN  IF IsInvalid(sanitized) THEN RejectInvalid(text)
                ELSE IF ~rate.ok THEN RejectRateLimited(rate)
                ELSE AcceptInput(text, sanitized, rate)

(***************************************************************************)
(* query_claude up to the upstream call: get_claude_client stops the       *)
(* script when the key is missing, otherwise the request is sent.          *)
(***************************************************************************)
QueryClaude ==
    /\ pc = "processing"
    /\ IF ~api_key
       THEN /\ pc' = "awaiting"
            /\ outcome' = "stopped"
            /\ log_tail' = Append(log_tail, KeyMissingLine)
            /\ user_input' = <<>>
            /\ sanitized_input' = <<>>
            /\ submitted' = <<>>
            /\ UNCHANGED <<api_key, now, query_times, messages, requests, accepted,
                           last_pruned>>
       ELSE /\ requests' = Append(requests, Request(sanitized_input, student_data))
            /\ pc' = "calling"
            /\ UNCHANGED <<api_key, now, query_times, messages, user_input, sanitized_input,
                           outcome, accepted, last_pruned, submitted, log_tail>>

(***************************************************************************)
(* The upstream call ends: query_claude returns the text or the fallback,  *)
(* the handler adds it to the history and reruns the script.               *)
(***************************************************************************)
UpstreamReturns(result) ==
    /\ pc = "calling"
    /\ IF result = "text"
       THEN /\ messages' = Append(messages, [role |-> "assistant", content |-> MODEL_TEXT])
            /\ log_tail' = Append(log_tail,
                                  log_query(Len(sanitized_input), Len(MODEL_TEXT), TRUE))
            /\ outcome' = "success"
       ELSE IF ExceptionHandled(result)
       THEN /\ messages' = Append(messages, [role |-> "assistant", content |-> FALLBACK])
            /\ log_tail' = log_tail \o
                               <<ApiErrorLine, log_query(Len(sanitized_input), 0, FALSE)>>
            /\ outcome' = "failed"
       ELSE /\ outcome' = "raised"
            /\ UNCHANGED <<messages, log_tail>>
    /\ pc' = "awaiting"
    /\ user_input' = <<>>
    /\ sanitized_input' = <<>>
    /\ submitted' = <<>>
    /\ UNCHANGED <<api_key, now, query_times, requests, accepted, last_pruned>>

(***************************************************************************)
(* The Clear Chat History button.                                          *)
(***************************************************************************)
\* slip: the button resets the rate window together with the transcript
ClearChatHistory_ResetsWindow ==
    /\ pc = "awaiting"
    /\ messages # <<>>
    /\ messages' = <<>>
    /\ query_times' = <<>>
    /\ UNCHANGED <<api_key, now, pc, user_input, sanitized_input, requests, outcome,
                   accepted, last_pruned, submitted, log_tail>>

ClearChatHistory ==
    /\ pc = "awaiting"
    /\ messages # <<>>
    /\ messages' = <<>>
    /\ UNCHANGED <<api_key, now, query_times, pc, user_input, sanitized_input, requests,
                   outcome, accepted, last_pruned, submitted, log_tail>>

(***************************************************************************)
(* Time passes.  Timestamps that can no longer share a rolling hour with   *)
(* a later one leave the history.                                          *)
(***************************************************************************)
Tick ==
    /\ now < MaxTime
    /\ now' = now + 1
    /\ accepted' = SelectSeq(accepted, LAMBDA t : now + 1 - t < Hour)
    /\ UNCHANGED <<api_key, query_times, messages, pc, user_input, sanitized_input,
                   requests, outcome, last_pruned, submitted, log_tail>>

Next ==
    \/ \E text \in RawInputs : ChatInput(text)
    \/ QueryClaude
    \/ \E result \in UpstreamResults : UpstreamReturns(result)
    \/ ClearChatHistory
    \/ Tick

Spec == Init /\ [][Next]_vars

\* the upstream call always ends, by a result or by an exception
FairSpec ==
    /\ Spec
    /\ WF_vars(QueryClaude)
    /\ WF_vars(\E result \in UpstreamResults : UpstreamReturns(result))

(***************************************************************************)
(* sanitize_input on its own: the text is every denylisted pattern in      *)
(* four letter-casings, alone or inside a question.                        *)
(***************************************************************************)
\* letters alternately upper-cased and lower-cased
MixedCase(s) ==
    [i \in 1..Len(s) |-> IF i % 2 = 1 THEN UpperChar(s[i]) ELSE LowerChar(s[i])]

Casings(pattern) == {pattern, Lower(pattern), Upper(pattern), MixedCase(pattern)}

SanitizerInputs ==
    UNION { { form, <<"W", "h", "o", " ">> \o form \o <<" ", "I", "C", "F", "?">> } :
            form \in UNION { Casings(dangerous_patterns[k]) : k \in DOMAIN dangerous_patterns } }

SanitizerInit ==
    /\ api_key = TRUE
    /\ now = 0
    /\ query_times = <<>>
    /\ messages = <<>>
    /\ pc = "sanitizing"
    /\ user_input \in SanitizerInputs
    /\ sanitized_input = <<>>
    /\ requests = <<>>
    /\ outcome = "none"
    /\ accepted = <<>>
    /\ last_pruned = 0
    /\ submitted = <<>>
    /\ log_tail = <<>>

\* Security Check 1, line 592: sanitized_input = sanitize_input(user_input)
Sanitize ==
    /\ pc = "sanitizing"
    /\ sanitized_input' = sanitize_input(user_input)
    /\ pc' = "sanitized"
    /\ UNCHANGED <<api_key, now, query_times, messages, user_input, requests, outcome,
                   accepted, last_pruned, submitted, log_tail>>

SanitizerNext == Sanitize

SanitizerSpec == SanitizerInit /\ [][SanitizerNext]_vars

TypeOK ==
    /\ api_key \in BOOLEAN
    /\ now \in 0..MaxTime
    /\ pc \in {"awaiting", "processing", "calling"}
    /\ outcome \in {"none", "invalid", "rate_limited", "pending", "stopped", "success",
                    "failed", "raised"}
    /\ Len(messages) <= MaxMessages

(***************************************************************************)
(* Properties.                                                             *)
(***************************************************************************)
\* a chat submission that reaches the handler body
Attempt == \E text \in RawInputs : Len(text) > 0 /\ ChatInput(text)

\* a chat submission whose sanitized form passes Security Check 1
ValidAttempt == \E text \in RawInputs : Len(Sanitized[text]) >= MIN_INPUT_LEN /\ ChatInput(text)

\* accepted timestamps in the rolling hour that starts at t
AcceptedFrom(t) == {j \in DOMAIN accepted : accepted[j] >= t /\ accepted[j] - t < Hour}

\* C1: no rolling hour holds more than 20 accepted attempts, so the attempt
\* after 20 accepted ones within the hour was rejected.
C1_AtMostTwentyPerHour ==
    \A i \in DOMAIN accepted : Cardinality(AcceptedFrom(accepted[i])) <= MAX_QUERIES

\* 20 attempts accepted at more than one instant of the hour, and a further one rejected
C1_Witness ==
    /\ outcome = "rate_limited"
    /\ Len(accepted) = MAX_QUERIES
    /\ accepted[1] < accepted[MAX_QUERIES]
    /\ now - accepted[1] < Hour

\* recorded timestamps less than one hour old
StillInHour == {j \in DOMAIN query_times : now - query_times[j] < Hour}

C3_RejectionKeepsWindow ==
    [][outcome' = "rate_limited" /\ Attempt => query_times' = query_times]_vars

\* a rejection with timestamps of two different instants in the window
C3_Witness ==
    /\ outcome = "rate_limited"
    /\ Len(query_times) = MAX_QUERIES
    /\ query_times[1] < query_times[MAX_QUERIES]

\* C4: without the API key no submission changes the transcript or the rate window.
C4_NoInteractionWithoutKey ==
    ~api_key => (messages = <<>> /\ query_times = <<>>)

\* the transcript is a sequence of (user, assistant) pairs
WellPaired(transcript) ==
    /\ Len(transcript) % 2 = 0
    /\ \A i \in DOMAIN transcript :
          transcript[i].role = (IF i % 2 = 1 THEN "user" ELSE "assistant")

\* C5: whenever the session awaits input the transcript consists of complete
\* (user, assistant) pairs.
C5_TranscriptPaired == pc = "awaiting" => WellPaired(messages)

\* C6: a submission whose sanitized form is shorter than 3 characters makes no
\* upstream call and leaves the transcript and the rate window unchanged.
C6_InvalidInputRejected ==
    [][\A text \in RawInputs :
          (Len(text) > 0 /\ Len(Sanitized[text]) < MIN_INPUT_LEN /\ ChatInput(text))
          => /\ messages' = messages
             /\ query_times' = query_times
             /\ requests' = requests
             /\ pc' = "awaiting"
      ]_vars

\* an invalid submission made after earlier attempts were recorded
C6_Witness ==
    /\ outcome = "invalid"
    /\ Len(query_times) > 0
    /\ Len(messages) > 0

\* C7: a submission rejected by the rate limiter makes no upstream call and
\* leaves the transcript unchanged.
C7_RateLimitedNoCall ==
    [][outcome' = "rate_limited" /\ Attempt
          => /\ messages' = messages
             /\ requests' = requests
             /\ pc' = "awaiting"
      ]_vars

\* a rate-limited submission with a transcript on display
C7_Witness ==
    /\ outcome = "rate_limited"
    /\ pc = "awaiting"
    /\ Len(messages) > 0

\* C8: when the upstream call raises, the attempt ends with the user entry
\* followed by an assistant entry holding the fallback, and the session awaits
\* input again.
C8_FallbackOnException ==
    [][UpstreamReturns("raise")
          => /\ messages' = submitted \o <<[role |-> "user", content |-> sanitized_input],
                                           [role |-> "assistant", content |-> FALLBACK]>>
             /\ outcome' = "failed"
             /\ pc' = "awaiting"
      ]_vars

\* a failed attempt followed by a further accepted submission
C8_Witness ==
    /\ pc = "processing"
    /\ Len(messages) = 3
    /\ messages[2] = [role |-> "assistant", content |-> FALLBACK]

\* every column of every row of the directory is in the serialized context
HasFullDataset(context) ==
    \A r \in DOMAIN student_data : \A c \in DOMAIN Columns :
        \E k \in DOMAIN context : \E f \in DOMAIN context[k] :
            context[k][f] = <<Columns[c], student_data[r][Columns[c]]>>

\* C9: when the upstream call succeeds, exactly one call was dispatched, its
\* payload holds the full serialized dataset and the sanitized question, and
\* the transcript gains the user entry and then the assistant entry.
C9_SuccessfulAttempt ==
    [][UpstreamReturns("text")
          => /\ Len(requests) = 1
             /\ requests' = requests
             /\ HasFullDataset(requests[1].messages[1].content.context)
             /\ requests[1].messages[1].content.question = Sanitized[user_input]
             /\ messages' = submitted \o
                    <<[role |-> "user", content |-> Sanitized[user_input]],
                      [role |-> "assistant", content |-> MODEL_TEXT]>>
      ]_vars

\* a second successful attempt, recorded after an earlier pair
C9_Witness ==
    /\ outcome = "success"
    /\ Len(messages) = 4
    /\ messages[4] = [role |-> "assistant", content |-> MODEL_TEXT]
    /\ Len(requests) = 1

\* C10: every attempt that entered PROCESSING returns to AWAITING_INPUT after
\* exactly one upstream call.
C10_ExactlyOneCall ==
    [][pc # "awaiting" /\ pc' = "awaiting" => Len(requests') = 1]_vars

\* the lines written by log_query among the given lines
QueryLines(lines) == {i \in DOMAIN lines : lines[i].event = "Query"}

IsPrefix(a, b) == Len(a) <= Len(b) /\ \A i \in DOMAIN a : a[i] = b[i]

\* C11 as claimed: every submission that reaches the handler body has
\* appended exactly one audit line of log_query when it ends.
C11_OneAuditLinePerAttempt ==
    [][(Attempt \/ pc # "awaiting") /\ pc' = "awaiting"
          => Cardinality(QueryLines(log_tail')) = 1
      ]_vars

\* C11: the end of a dispatched upstream call appends exactly one audit line
\* with the outcome, the length of the sanitized question and the length of
\* the model's text (0 on failure); a submission rejected as invalid or
\* rate-limited appends one warning and no audit line; lines are only added.
C11_AuditLinePerDispatchedQuery ==
    [][ /\ \A result \in UpstreamResults :
              UpstreamReturns(result)
              => /\ IsPrefix(log_tail, log_tail')
                 /\ QueryLines(log_tail) = {}
                 /\ QueryLines(log_tail') = {Len(log_tail')}
                 /\ log_tail'[Len(log_tail')] =
                        [level |-> "INFO", event |-> "Query",
                         status |-> IF result = "text" THEN "SUCCESS" ELSE "FAILED",
                         query_length |-> Len(messages[Len(messages)].content),
                         response_length |-> IF result = "text"
                                             THEN Len(messages'[Len(messages')].content)
                                             ELSE 0]
        /\ (outcome' \in {"invalid", "rate_limited"} /\ Attempt)
              => /\ Len(log_tail') = 1
                 /\ log_tail'[1].level = "WARNING"
                 /\ QueryLines(log_tail') = {}
        /\ (pc # "awaiting" => IsPrefix(log_tail, log_tail'))
      ]_vars

\* a failed upstream call with its error line and its audit line
C11_Witness ==
    /\ outcome = "failed"
    /\ Len(log_tail) = 2
    /\ log_tail[2].status = "FAILED"
    /\ log_tail[2].response_length = 0

\* s holds pattern in some letter-casing
ContainsIgnoreCase(s, pattern) ==
    \E i \in 1..(Len(s) - Len(pattern) + 1) :
        Lower(SubSeq(s, i, i + Len(pattern) - 1)) = Lower(pattern)

\* C12: a denylisted substring present in the submitted text, in any
\* letter-casing, is absent in every letter-casing from what sanitize_input
\* made of the text.
C12_DenylistRemovedAnyCase ==
    pc = "sanitized" =>
        \A k \in DOMAIN dangerous_patterns :
            ContainsIgnoreCase(user_input, dangerous_patterns[k])
            => ~ContainsIgnoreCase(sanitized_input, dangerous_patterns[k])

\* C13: Clear Chat History empties the transcript and leaves the rate window
\* as it was, so with 20 attempts accepted within the hour a further valid
\* attempt is rejected whether or not the history was cleared in between.
C13_ClearKeepsRateWindow ==
    [][ /\ ClearChatHistory => (messages' = <<>> /\ query_times' = query_times)
        /\ (Len(accepted) >= MAX_QUERIES /\ ValidAttempt)
              => (outcome' = "rate_limited" /\ pc' = "awaiting")
      ]_vars

\* a rejection with an empty transcript: the history was cleared after the
\* 20 accepted attempts of this hour put their entries into it
C13_Witness ==
    /\ outcome = "rate_limited"
    /\ messages = <<>>
    /\ Len(accepted) = MAX_QUERIES
    /\ Len(query_times) = MAX_QUERIES

====
